---------------------------- MODULE Spec2Model ----------------------------
(***************************************************************************)
(* A model of hayro-syntax's byte reader (src/hayro-syntax/src/reader.rs): *)
(* the Reader cursor over a borrowed byte buffer, the generic read/skip    *)
(* wrappers that run a grammar and backtrack, and the ReaderContext that   *)
(* carries the content-stream mode and the chain of parent objects.        *)
(***************************************************************************)
EXTENDS Integers, Sequences, FiniteSets, TLC

(***************************************************************************)
(* Bounds of the model.                                                    *)
(***************************************************************************)
\* usize is modelled as the integers 0..UsizeMax, arithmetic modulo UsizeMax+1.
UsizeMax == 7
\* Generic buffers are all byte strings of at most MaxDataLen bytes.
MaxDataLen == 2
\* Length and offset arguments are drawn from 0..MaxArg and UsizeMax.
MaxArg == 3
\* Generic read/skip calls nest at most MaxDepth deep.
MaxDepth == 2
\* The document holds the objects 1..MaxObjects.
MaxObjects == 3
\* The longest chain of parent objects a resolution may build.
MaxChain == 2
\* Each of the readers sharing a buffer is called at most MaxCalls times.
MaxCalls == 3
\* A JPEG image holds at most MaxPixels pixels.
MaxPixels == 1

(***************************************************************************)
(* Bytes.                                                                  *)
(***************************************************************************)
LF == 10
CR == 13
PERCENT == 37

\* `\n`, `\r`, `%` and the digit `1`.
ByteAlphabet == {LF, CR, PERCENT, 49}

RECURSIVE SeqsUpTo(_, _)
SeqsUpTo(S, n) ==
    IF n = 0 THEN {<<>>}
    ELSE LET shorter == SeqsUpTo(S, n - 1)
         IN  shorter \cup {Append(s, b) : s \in shorter, b \in S}

\* The bytes `12 0 R`.
RefBytes == <<49, 50, 32, 48, 32, 82>>
\* A comment line between two tokens, and a CRLF pair followed by a token.
CommentBytes == <<PERCENT, 49, LF, 49>>
CrLfBytes == <<CR, LF, 49>>

\* NUL and the space: white space to PDF, and only the space to is_ascii_whitespace.
NulBytes == <<0, 49>>
SpaceBytes == <<32, 32, 49>>

Buffers ==
    SeqsUpTo(ByteAlphabet, MaxDataLen)
        \cup {RefBytes, CommentBytes, CrLfBytes, NulBytes, SpaceBytes}

Args == (0..MaxArg) \cup {UsizeMax}

(***************************************************************************)
(* Byte predicates handed to eat / forward_if / forward_while.             *)
(***************************************************************************)
is_white_space_character(b) == b \in {0, 9, 10, 12, 13, 32}
is_eol_character(b) == b \in {10, 13}
is_ascii_whitespace(b) == b \in {9, 10, 12, 13, 32}
is_digit(b) == b \in 48..57

Preds == {"is_white_space_character", "is_eol_character", "is_digit", "not_eol"}

Pred(f, b) ==
    CASE f = "is_white_space_character" -> is_white_space_character(b)
      [] f = "is_eol_character" -> is_eol_character(b)
      [] f = "is_digit" -> is_digit(b)
      [] f = "not_eol" -> ~is_eol_character(b)

Tags == {<<>>, <<PERCENT>>, <<CR, LF>>, <<82>>, <<49, 50>>}

VARIABLES
    data,             \* Reader.data
    offset,           \* Reader.offset
    overflow_checks,  \* the build: TRUE panics on integer overflow, FALSE wraps
    panicked,         \* the program aborted with a panic
    last,             \* the last completed operation: its name, argument, offset before, result
    stack,            \* the generic read/skip calls in progress, innermost last
    resolver,         \* the resolution of an indirect reference in progress
    cursors,          \* several readers over the one buffer, and the one that acted last
    dct               \* a call of the DCT filter's decode in progress

vars == <<data, offset, overflow_checks, panicked, last, stack, resolver, cursors, dct>>

(***************************************************************************)
(* Results: Option<T> with the offset the call leaves behind.              *)
(***************************************************************************)
Ret(some, kind, val, off) ==
    [some |-> some, kind |-> kind, val |-> val, off |-> off, panic |-> FALSE]
SomeRet(kind, val, off) == Ret(TRUE, kind, val, off)
NoneRet(off) == Ret(FALSE, "none", <<>>, off)
PanicRet(off) == [some |-> FALSE, kind |-> "panic", val |-> <<>>, off |-> off, panic |-> TRUE]

\* Sequencing: the value v of one step, computed once, handed to the rest K.
Then(v, K(_)) == CHOOSE x \in {K(r) : r \in {v}} : TRUE

(***************************************************************************)
(* Reader: the cursor operations, each from the offset o.                  *)
(***************************************************************************)
at_end(o) == o >= Len(data)

\* <[u8]>::get(a..b)
data_get_range(a, b) ==
    IF a <= b /\ b <= Len(data) THEN SomeRet("bytes", SubSeq(data, a + 1, b), a)
    ELSE NoneRet(a)

\* <[u8]>::get(i)
data_get(i) ==
    IF i < Len(data) THEN SomeRet("byte", <<data[i + 1]>>, i) ELSE NoneRet(i)

tail(o) == IF o <= Len(data) THEN SomeRet("bytes", SubSeq(data, o + 1, Len(data)), o)
           ELSE NoneRet(o)

peek_bytes(o, len) ==
    LET end == o + len
    IN  IF end > UsizeMax /\ overflow_checks THEN PanicRet(o)
        ELSE data_get_range(o, end % (UsizeMax + 1))

peek_byte(o) == data_get(o)

read_bytes_advance_first(o, len) ==
    LET v == peek_bytes(o, len)
    IN  IF v.panic THEN v ELSE [v EXCEPT !.off = (o + len) % (UsizeMax + 1)]

read_bytes(o, len) ==
    LET v == peek_bytes(o, len)
    IN  IF v.panic \/ ~v.some THEN v
        ELSE [v EXCEPT !.off = (o + len) % (UsizeMax + 1)]

read_byte(o) ==
    LET v == peek_byte(o)
    IN  IF ~v.some THEN v ELSE [v EXCEPT !.off = (o + 1) % (UsizeMax + 1)]

skip_bytes(o, len) ==
    LET v == read_bytes(o, len)
    IN  IF v.panic \/ ~v.some THEN v ELSE SomeRet("unit", <<>>, v.off)

forward(o) ==
    IF o + 1 > UsizeMax /\ overflow_checks THEN PanicRet(o)
    ELSE SomeRet("unit", <<>>, (o + 1) % (UsizeMax + 1))

eat(o, f) ==
    LET val == peek_byte(o)
    IN  IF ~val.some THEN NoneRet(o)
        ELSE IF Pred(f, val.val[1])
             THEN LET fw == forward(o)
                  IN  IF fw.panic THEN fw ELSE SomeRet("byte", val.val, fw.off)
             ELSE NoneRet(o)

forward_if(o, f) ==
    LET val == peek_byte(o)
    IN  IF ~val.some THEN NoneRet(o)
        ELSE IF Pred(f, val.val[1]) THEN forward(o) ELSE NoneRet(o)

forward_while_once(o, f) ==
    LET b == peek_byte(o)
    IN  IF b.some /\ Pred(f, b.val[1]) THEN forward(o) ELSE SomeRet("unit", <<>>, o)

RECURSIVE forward_while(_, _)
forward_while(o, f) ==
    LET b == peek_byte(o)
    IN  IF b.some /\ Pred(f, b.val[1])
        THEN LET fw == forward(o)
             IN  IF fw.panic THEN fw ELSE forward_while(fw.off, f)
        ELSE SomeRet("unit", <<>>, o)

forward_while_1(o, f) ==
    LET e == eat(o, f)
    IN  IF e.panic THEN e
        ELSE IF ~e.some THEN NoneRet(o)
             ELSE forward_while(e.off, f)

RECURSIVE peek_tag_from_prefix(_, _, _)
peek_tag_from_prefix(cloned, tag, i) ==
    IF i > Len(tag) \/ ~peek_byte(cloned).some THEN TRUE
    ELSE IF peek_byte(cloned).val[1] = tag[i]
         THEN peek_tag_from_prefix(forward(cloned).off, tag, i + 1)
         ELSE FALSE

RECURSIVE peek_tag_from(_, _, _)
peek_tag_from(cloned, tag, i) ==
    IF i > Len(tag) THEN TRUE
    ELSE IF peek_byte(cloned).some /\ peek_byte(cloned).val[1] = tag[i]
         THEN peek_tag_from(forward(cloned).off, tag, i + 1)
         ELSE FALSE

peek_tag(o, tag) ==
    IF peek_tag_from(o, tag, 1) THEN SomeRet("unit", <<>>, o) ELSE NoneRet(o)

forward_tag_unchecked(o, tag) ==
    IF ~peek_tag(o, tag).some THEN NoneRet((o + Len(tag)) % (UsizeMax + 1))
    ELSE SomeRet("unit", <<>>, (o + Len(tag)) % (UsizeMax + 1))

forward_tag(o, tag) ==
    IF ~peek_tag(o, tag).some THEN NoneRet(o)
    ELSE SomeRet("unit", <<>>, (o + Len(tag)) % (UsizeMax + 1))

RECURSIVE skip_white_spaces(_)
skip_white_spaces(o) ==
    LET b == peek_byte(o)
    IN  IF b.some /\ is_white_space_character(b.val[1])
        THEN LET fw == forward(o)
             IN  IF fw.panic THEN fw ELSE skip_white_spaces(fw.off)
        ELSE SomeRet("unit", <<>>, o)

read_white_space_no_pair(o) ==
    LET p == peek_byte(o)
    IN  IF ~p.some THEN NoneRet(o)
        ELSE IF is_ascii_whitespace(p.val[1])
             THEN SomeRet("unit", <<>>, read_byte(o).off)
             ELSE NoneRet(o)

read_white_space(o) ==
    LET p == peek_byte(o)
    IN  IF ~p.some THEN NoneRet(o)
        ELSE IF is_ascii_whitespace(p.val[1])
             THEN LET w == read_byte(o)
                  IN  IF ~w.some THEN NoneRet(w.off)
                      ELSE IF w.val[1] = CR /\ peek_byte(w.off).some
                                /\ peek_byte(w.off).val[1] = LF
                           THEN LET n == read_byte(w.off)
                                IN  IF ~n.some THEN NoneRet(n.off)
                                    ELSE SomeRet("unit", <<>>, n.off)
                           ELSE SomeRet("unit", <<>>, w.off)
             ELSE NoneRet(o)

RECURSIVE skip_eol_characters(_)
skip_eol_characters(o) ==
    LET b == peek_byte(o)
    IN  IF b.some /\ is_eol_character(b.val[1])
        THEN LET fw == forward(o)
             IN  IF fw.panic THEN fw ELSE skip_eol_characters(fw.off)
        ELSE SomeRet("unit", <<>>, o)

\* Comment::skip: `%` and everything up to the end of its line.
Comment_skip(o) ==
    LET t == forward_tag(o, <<PERCENT>>)
    IN  IF ~t.some THEN t ELSE forward_while(t.off, "not_eol")

skip_white_spaces_and_comments_no_comments(o) == skip_white_spaces(o)

RECURSIVE skip_white_spaces_and_comments(_)
skip_white_spaces_and_comments(o) ==
    LET b == peek_byte(o)
    IN  IF ~b.some THEN SomeRet("unit", <<>>, o)
        ELSE IF is_white_space_character(b.val[1])
             THEN LET s == skip_white_spaces(o)
                  IN  IF s.panic THEN s ELSE skip_white_spaces_and_comments(s.off)
             ELSE IF b.val[1] = PERCENT
                  THEN LET c == Comment_skip(o)
                       IN  IF c.panic THEN c ELSE skip_white_spaces_and_comments(c.off)
                  ELSE SomeRet("unit", <<>>, o)

(***************************************************************************)
(* The generic wrappers.  t is what the grammar's own routine returned,    *)
(* with the offset it left behind.                                         *)
(***************************************************************************)
Reader_read_no_restore(old_offset, t) == t

\* Reader::read: T::read(self, ctx).or_else(|| { self.offset = old_offset; None })
Reader_read(old_offset, t) ==
    Then(t, LAMBDA v : IF v.panic \/ v.some THEN v ELSE NoneRet(old_offset))

Reader_skip_span_from_start(old_offset, t) ==
    Then(t, LAMBDA v :
        IF v.panic THEN v
        ELSE IF ~v.some THEN NoneRet(old_offset)
             ELSE [data_get_range(0, v.off) EXCEPT !.off = v.off])

\* Reader::skip: T::skip(..).or_else(restore)?; self.data.get(old_offset..self.offset)
Reader_skip(old_offset, t) ==
    Then(t, LAMBDA v :
        IF v.panic THEN v
        ELSE IF ~v.some THEN NoneRet(old_offset)
             ELSE [data_get_range(old_offset, v.off) EXCEPT !.off = v.off])

\* The flag each entry point hands to Reader::skip.
skip_not_in_content_stream_flag == FALSE
skip_in_content_stream_flag == FALSE

(***************************************************************************)
(* ReaderContext.                                                          *)
(***************************************************************************)
ReaderContext_new_with_parent(xref, in_content_stream) ==
    [xref |-> xref, in_content_stream |-> in_content_stream,
     obj_number |-> <<1>>, parent_chain |-> <<1>>]

ReaderContext_new(xref, in_content_stream) ==
    [xref |-> xref, in_content_stream |-> in_content_stream,
     obj_number |-> <<>>, parent_chain |-> <<>>]

ReaderContext_dummy == ReaderContext_new("dummy", FALSE)

read_without_context_ctx_plain == ReaderContext_new("dummy", FALSE)

\* The context read_without_context builds.
read_without_context_ctx == ReaderContext_new("dummy", TRUE)

\* The context Readable::from_bytes_impl builds.
from_bytes_impl_ctx == ReaderContext_new("dummy", FALSE)

Contexts == {ReaderContext_new("dummy", f) : f \in BOOLEAN} \cup {ReaderContext_dummy}

(***************************************************************************)
(* The grammars of the object module, as the reader's callers see them:    *)
(* an unsigned integer, an indirect reference `n g R`, and a value that is *)
(* a reference or a number depending on the content-stream mode.           *)
(***************************************************************************)
RECURSIVE DecValue(_)
DecValue(bytes) ==
    IF bytes = <<>> THEN 0
    ELSE 10 * DecValue(SubSeq(bytes, 1, Len(bytes) - 1)) + (bytes[Len(bytes)] - 48)

Number_read(o) ==
    Then(forward_while_1(o, "is_digit"), LAMBDA d :
        IF ~d.some THEN NoneRet(d.off)
        ELSE SomeRet("num", <<DecValue(SubSeq(data, o + 1, d.off))>>, d.off))

\* Fails where it stands: the offset is wherever the last successful step left it.
ObjRef_read(o) ==
    Then(Reader_read(o, Number_read(o)), LAMBDA n1 :
        IF ~n1.some THEN NoneRet(n1.off)
        ELSE Then(skip_white_spaces(n1.off), LAMBDA w1 :
             Then(Reader_read(w1.off, Number_read(w1.off)), LAMBDA n2 :
                IF ~n2.some THEN NoneRet(n2.off)
                ELSE Then(skip_white_spaces(n2.off), LAMBDA w2 :
                     Then(forward_tag(w2.off, <<82>>), LAMBDA t :
                        IF ~t.some THEN NoneRet(w2.off)
                        ELSE SomeRet("ref", <<n1.val[1], n2.val[1]>>, t.off))))))

Object_read(o, c) ==
    IF c.in_content_stream THEN Number_read(o)
    ELSE Then(Reader_read(o, ObjRef_read(o)), LAMBDA r :
            IF r.some THEN r ELSE Number_read(o))

Object_skip(o, is_content_stream) ==
    Then(Object_read(o, ReaderContext_new("dummy", is_content_stream)), LAMBDA v :
        IF v.some THEN SomeRet("unit", <<>>, v.off) ELSE NoneRet(v.off))

(***************************************************************************)
(* The state after construction, and the record of a completed call.       *)
(***************************************************************************)
Op(op, n, f, tag, flag, old, r) ==
    [op |-> op, n |-> n, f |-> f, tag |-> tag, flag |-> flag, old |-> old,
     some |-> r.some, kind |-> r.kind, val |-> r.val,
     t_off |-> old, inner |-> 0]

NoOp == Op("new", 0, "", <<>>, FALSE, 0, SomeRet("unit", <<>>, 0))

\* No reference is being resolved.
NoResolution ==
    [objects |-> <<>>, root_ctx |-> ReaderContext_dummy, frames |-> <<>>, ret |-> "none"]

\* Only the one reader of data and offset is in use.
NoCursors == [readers |-> <<>>, acting |-> 0]

\* The DCT filter is not running.
NoDecode == [pc |-> "idle"]

Init ==
    /\ data \in Buffers
    /\ offset = 0
    /\ overflow_checks \in BOOLEAN
    /\ panicked = FALSE
    /\ last = NoOp
    /\ stack = <<>>
    /\ resolver = NoResolution
    /\ cursors = NoCursors
    /\ dct = NoDecode

\* The program runs and no grammar is in progress: calls are made directly on the reader.
Ready == ~panicked /\ stack = <<>>

\* A call completes with r.
Complete(op, n, f, tag, flag, r) ==
    /\ panicked' = r.panic
    /\ offset' = IF r.panic THEN offset ELSE r.off
    /\ last' = Op(op, n, f, tag, flag, offset, r)
    /\ UNCHANGED <<data, overflow_checks, stack, resolver, cursors, dct>>

(***************************************************************************)
(* One action per operation of Reader.                                     *)
(***************************************************************************)
New ==
    /\ Ready
    /\ Complete("new", 0, "", <<>>, FALSE, SomeRet("unit", <<>>, 0))

NewWith ==
    /\ Ready
    /\ \E n \in Args :
        Complete("new_with", n, "", <<>>, FALSE, SomeRet("unit", <<>>, n))

JumpToEnd ==
    /\ Ready
    /\ Complete("jump_to_end", 0, "", <<>>, FALSE, SomeRet("unit", <<>>, Len(data)))

Jump ==
    /\ Ready
    /\ \E n \in Args :
        Complete("jump", n, "", <<>>, FALSE, SomeRet("unit", <<>>, n))

TailOp ==
    /\ Ready
    /\ Complete("tail", 0, "", <<>>, FALSE, tail(offset))

ReadBytes ==
    /\ Ready
    /\ \E n \in Args :
        Complete("read_bytes", n, "", <<>>, FALSE, read_bytes(offset, n))

ReadByte ==
    /\ Ready
    /\ Complete("read_byte", 0, "", <<>>, FALSE, read_byte(offset))

SkipBytes ==
    /\ Ready
    /\ \E n \in Args :
        Complete("skip_bytes", n, "", <<>>, FALSE, skip_bytes(offset, n))

PeekBytes ==
    /\ Ready
    /\ \E n \in Args :
        Complete("peek_bytes", n, "", <<>>, FALSE, peek_bytes(offset, n))

PeekByte ==
    /\ Ready
    /\ Complete("peek_byte", 0, "", <<>>, FALSE, peek_byte(offset))

Eat ==
    /\ Ready
    /\ \E f \in Preds :
        Complete("eat", 0, f, <<>>, FALSE, eat(offset, f))

Forward ==
    /\ Ready
    /\ Complete("forward", 0, "", <<>>, FALSE, forward(offset))

ForwardIf ==
    /\ Ready
    /\ \E f \in Preds :
        Complete("forward_if", 0, f, <<>>, FALSE, forward_if(offset, f))

ForwardWhile1 ==
    /\ Ready
    /\ \E f \in Preds :
        Complete("forward_while_1", 0, f, <<>>, FALSE, forward_while_1(offset, f))

ForwardTag ==
    /\ Ready
    /\ \E t \in Tags :
        Complete("forward_tag", 0, "", t, FALSE, forward_tag(offset, t))

ForwardWhile ==
    /\ Ready
    /\ \E f \in Preds :
        Complete("forward_while", 0, f, <<>>, FALSE, forward_while(offset, f))

PeekTag ==
    /\ Ready
    /\ \E t \in Tags :
        Complete("peek_tag", 0, "", t, FALSE, peek_tag(offset, t))

SkipWhiteSpaces ==
    /\ Ready
    /\ Complete("skip_white_spaces", 0, "", <<>>, FALSE, skip_white_spaces(offset))

ReadWhiteSpace ==
    /\ Ready
    /\ Complete("read_white_space", 0, "", <<>>, FALSE, read_white_space(offset))

SkipEolCharacters ==
    /\ Ready
    /\ Complete("skip_eol_characters", 0, "", <<>>, FALSE, skip_eol_characters(offset))

SkipWhiteSpacesAndComments ==
    /\ Ready
    /\ Complete("skip_white_spaces_and_comments", 0, "", <<>>, FALSE,
                skip_white_spaces_and_comments(offset))

(***************************************************************************)
(* read and skip with the value grammar.                                   *)
(***************************************************************************)

ReadWithContext ==
    /\ Ready
    /\ \E c \in Contexts :
        Complete("read_with_context", 0, "", <<>>, c.in_content_stream,
                 Reader_read(offset, Object_read(offset, c)))

ReadWithoutContext ==
    /\ Ready
    /\ Complete("read_without_context", 0, "", <<>>,
                read_without_context_ctx.in_content_stream,
                Reader_read(offset, Object_read(offset, read_without_context_ctx)))

\* Readable::from_bytes_impl: a reader of its own over the bytes, T::read called
\* directly; the caller's cursor is not involved.
FromBytesImpl ==
    /\ Ready
    /\ Complete("from_bytes_impl", 0, "", <<>>, from_bytes_impl_ctx.in_content_stream,
                [Object_read(0, from_bytes_impl_ctx) EXCEPT !.off = offset])

Skip ==
    /\ Ready
    /\ \E flag \in BOOLEAN :
        Complete("skip", 0, "", <<>>, flag, Reader_skip(offset, Object_skip(offset, flag)))

SkipNotInContentStream ==
    /\ Ready
    /\ Complete("skip_not_in_content_stream", 0, "", <<>>, skip_not_in_content_stream_flag,
                Reader_skip(offset, Object_skip(offset, skip_not_in_content_stream_flag)))

SkipInContentStream ==
    /\ Ready
    /\ Complete("skip_in_content_stream", 0, "", <<>>, skip_in_content_stream_flag,
                Reader_skip(offset, Object_skip(offset, skip_in_content_stream_flag)))

Next ==
    \/ New \/ NewWith \/ JumpToEnd \/ Jump \/ TailOp
    \/ ReadBytes \/ ReadByte \/ SkipBytes \/ PeekBytes \/ PeekByte
    \/ Eat \/ Forward \/ ForwardIf \/ ForwardWhile1 \/ ForwardTag \/ ForwardWhile \/ PeekTag
    \/ SkipWhiteSpaces \/ ReadWhiteSpace \/ SkipEolCharacters \/ SkipWhiteSpacesAndComments
    \/ ReadWithContext \/ ReadWithoutContext \/ FromBytesImpl
    \/ Skip \/ SkipNotInContentStream \/ SkipInContentStream

Spec == Init /\ [][Next]_vars

(***************************************************************************)
(* read and skip with any grammar.  The grammar's routine is code of the   *)
(* caller: between the call and its return it moves the cursor as it       *)
(* likes, calls read and skip itself, and returns a value or none.         *)
(***************************************************************************)
GrammarBuffers == {<<>>, CrLfBytes}

GrammarInit ==
    /\ data \in GrammarBuffers
    /\ offset = 0
    /\ overflow_checks \in BOOLEAN
    /\ panicked = FALSE
    /\ last = NoOp
    /\ stack = <<>>
    /\ resolver = NoResolution
    /\ cursors = NoCursors
    /\ dct = NoDecode

Frame(kind, old) == [kind |-> kind, old |-> old, inner |-> 0]

Step == Op("step", 0, "", <<>>, FALSE, 0, SomeRet("unit", <<>>, 0))

\* Reader::read, up to the call of T::read.
CallRead ==
    /\ ~panicked
    /\ Len(stack) < MaxDepth
    /\ stack' = Append(stack, Frame("read", offset))
    /\ last' = Step
    /\ UNCHANGED <<data, offset, overflow_checks, panicked, resolver, cursors, dct>>

\* Reader::skip, up to the call of T::skip.
CallSkip ==
    /\ ~panicked
    /\ Len(stack) < MaxDepth
    /\ stack' = Append(stack, Frame("skip", offset))
    /\ last' = Step
    /\ UNCHANGED <<data, offset, overflow_checks, panicked, resolver, cursors, dct>>

\* The routine in progress (or the caller, when none is) moves the cursor.
StepJump ==
    /\ ~panicked
    /\ \E n \in Args : offset' = n
    /\ last' = Step
    /\ UNCHANGED <<data, overflow_checks, panicked, stack, resolver, cursors, dct>>

StepReadByte ==
    /\ ~panicked
    /\ offset' = read_byte(offset).off
    /\ last' = Step
    /\ UNCHANGED <<data, overflow_checks, panicked, stack, resolver, cursors, dct>>

\* The innermost routine returns t; its wrapper finishes and hands the result
\* to the routine that called it.
Return(t) ==
    LET top == stack[Len(stack)]
        r == IF top.kind = "read" THEN Reader_read(top.old, t) ELSE Reader_skip(top.old, t)
        rest == SubSeq(stack, 1, Len(stack) - 1)
    IN  /\ offset' = r.off
        /\ stack' = IF rest # <<>> /\ r.some /\ rest[Len(rest)].inner < 2
                    THEN [rest EXCEPT ![Len(rest)].inner = @ + 1]
                    ELSE rest
        /\ last' = [Op(top.kind, 0, "", <<>>, FALSE, top.old, r)
                       EXCEPT !.t_off = offset, !.inner = top.inner]
        /\ UNCHANGED <<data, overflow_checks, panicked, resolver, cursors, dct>>

ReturnSome ==
    /\ ~panicked
    /\ stack # <<>>
    /\ Return(SomeRet("unit", <<>>, offset))

ReturnNone ==
    /\ ~panicked
    /\ stack # <<>>
    /\ Return(NoneRet(offset))

GrammarNext ==
    \/ CallRead \/ CallSkip \/ StepJump \/ StepReadByte \/ ReturnSome \/ ReturnNone

SpecGrammar == GrammarInit /\ [][GrammarNext]_vars

(***************************************************************************)
(* Properties of read and skip, checked under SpecGrammar.                 *)
(***************************************************************************)
\* C1: when read returns no value the offset is the one before the call,
\* wherever the grammar's routine left the cursor and however many inner reads
\* had succeeded before it failed.
C1_ReadBacktracks ==
    (last.op = "read" /\ ~last.some) => offset = last.old

C1_Witness ==
    /\ last.op = "read" /\ ~last.some /\ last.inner >= 2
    /\ last.t_off > last.old /\ offset = last.old

\* C2: when skip returns no value the offset is the one before the call, both
\* when the grammar's routine failed and when it succeeded but the span from the
\* old offset to the new one cannot be sliced from the buffer.
C2_SkipBacktracks ==
    (last.op = "skip" /\ ~last.some) => offset = last.old

\* C19: whenever skip returns a span, the span is the bytes of the buffer from
\* the offset before the call to the offset after it: the new offset is not
\* below the old one, the span is new - old bytes long and lies in the buffer.
C19_SkipSpanIsTheBytesPassed ==
    (last.op = "skip" /\ last.some) =>
        /\ last.old <= offset
        /\ offset <= Len(data)
        /\ Len(last.val) = offset - last.old
        /\ last.val = SubSeq(data, last.old + 1, offset)

C19_Witness ==
    /\ last.op = "skip" /\ last.some /\ data = CrLfBytes
    /\ last.old = 1 /\ offset = 3 /\ last.val = <<LF, 49>>

(***************************************************************************)
(* The resolution of an indirect reference.  An object of the document is  *)
(* missing from the cross-reference table, or holds the references its     *)
(* value contains (none for a plain value), each resolved in turn with a   *)
(* context of its own.                                                     *)
(***************************************************************************)
ObjIds == 1..MaxObjects

\* The cross-reference table has no location for the object.
Missing == <<0>>

Contents ==
    {Missing, <<>>} \cup {<<j>> : j \in ObjIds}
        \cup {<<j, j + 1>> : j \in 1..(MaxObjects - 1)}

\* The reference being resolved is the one to object 1.
Root == 1

ResolveInit ==
    /\ data = <<>>
    /\ offset = 0
    /\ overflow_checks = FALSE
    /\ panicked = FALSE
    /\ last = NoOp
    /\ stack = <<>>
    /\ \E objs \in [ObjIds -> Contents] :
           resolver = [objects |-> objs, root_ctx |-> ReaderContext_new("doc", FALSE),
                       frames |-> <<>>, ret |-> "none"]
    /\ cursors = NoCursors
    /\ dct = NoDecode

InChain(id, c) == \E i \in 1..Len(c.parent_chain) : c.parent_chain[i] = id

\* What becomes of the reference to id met under the context c.
CheckReference(id, c) ==
    IF resolver.objects[id] = Missing THEN "unresolved"
    ELSE IF InChain(id, c) THEN "cycle"
         ELSE IF Len(c.parent_chain) >= MaxChain THEN "too_deep"
              ELSE "enter"

\* The context the referenced object is parsed under: a copy, extended.
ExtendContext(c, id) ==
    [c EXCEPT !.obj_number = <<id>>, !.parent_chain = Append(@, id)]

SubstituteNull(r) == "ok"

\* What the caller makes of the result r of a nested resolution.
PropagateResult(r) == r

\* The reference the resolution meets next, and the context it meets it under.
Pending ==
    IF resolver.frames = <<>>
    THEN [id |-> Root, c |-> resolver.root_ctx]
    ELSE LET top == resolver.frames[Len(resolver.frames)]
         IN  [id |-> resolver.objects[top.id][top.next], c |-> top.c]

HasPending ==
    /\ resolver.ret = "none"
    /\ resolver.frames # <<>> =>
           LET top == resolver.frames[Len(resolver.frames)]
           IN  top.next <= Len(resolver.objects[top.id])

ResolverStep(r) ==
    /\ resolver' = r
    /\ UNCHANGED <<data, offset, overflow_checks, panicked, last, stack, cursors, dct>>

\* The reference is found, is no ancestor, and its object is entered.
ResolveEnter ==
    /\ HasPending
    /\ CheckReference(Pending.id, Pending.c) = "enter"
    /\ ResolverStep([resolver EXCEPT
           !.frames = Append(@, [id |-> Pending.id,
                                 c |-> ExtendContext(Pending.c, Pending.id),
                                 next |-> 1])])

\* The reference is not found, names an ancestor, or lies too deep: no value.
ResolveFail ==
    /\ HasPending
    /\ CheckReference(Pending.id, Pending.c) # "enter"
    /\ ResolverStep([resolver EXCEPT !.ret = CheckReference(Pending.id, Pending.c)])

\* Every reference of the object has been resolved: the object is the value.
ObjectDone ==
    /\ resolver.ret = "none"
    /\ resolver.frames # <<>>
    /\ ~HasPending
    /\ ResolverStep([resolver EXCEPT
           !.frames = SubSeq(@, 1, Len(@) - 1), !.ret = "ok"])

\* The nested resolution has returned to the object that holds the reference.
ReturnToParent ==
    /\ resolver.ret # "none"
    /\ resolver.frames # <<>>
    /\ ResolverStep(
           IF PropagateResult(resolver.ret) = "ok"
           THEN [resolver EXCEPT !.frames[Len(resolver.frames)].next = @ + 1,
                                 !.ret = "none"]
           ELSE [resolver EXCEPT !.frames = SubSeq(@, 1, Len(@) - 1)])

ResolveNext == ResolveEnter \/ ResolveFail \/ ObjectDone \/ ReturnToParent

\* The resolver is synchronous code: started, it runs until it returns.
SpecResolve == ResolveInit /\ [][ResolveNext]_vars /\ WF_vars(ResolveNext)

(***************************************************************************)
(* Properties of the resolution, checked under SpecResolve.                *)
(***************************************************************************)
Children(id) ==
    IF resolver.objects[id] = Missing THEN {}
    ELSE {resolver.objects[id][i] : i \in 1..Len(resolver.objects[id])}

RECURSIVE Descendants(_, _)
\* The objects reached from the objects of S by at least one and at most n references.
Descendants(S, n) ==
    IF n = 0 THEN {}
    ELSE LET next == UNION {Children(id) : id \in S}
         IN  next \cup Descendants(next, n - 1)

\* Resolving the root requires resolving an object under itself.
RootRequiresCycle ==
    /\ resolver.objects # <<>>
    /\ \E id \in {Root} \cup Descendants({Root}, MaxObjects) :
           id \in Descendants({id}, MaxObjects)

Finished == resolver.frames = <<>> /\ resolver.ret # "none"

NoDuplicates(c) ==
    \A i, j \in 1..Len(c.parent_chain) : c.parent_chain[i] = c.parent_chain[j] => i = j

\* C6: a resolution that requires resolving an object already among its
\* ancestors terminates, and with no value.
C6_CyclesEndInFailure ==
    RootRequiresCycle ~> (Finished /\ resolver.ret # "ok")

C6_Witness ==
    /\ resolver.objects # <<>>
    /\ resolver.objects[1] = <<2>> /\ resolver.objects[2] = <<1>>
    /\ Finished /\ resolver.ret = "cycle"

\* C7: no context of a resolution holds an object twice in its chain; a fresh
\* context has an empty chain and no current object; each level works on an
\* extended copy, so the chain of a caller is the same after a nested parse
\* returns as it was before.
C7_ChainInvariant ==
    /\ [](/\ ReaderContext_dummy.parent_chain = <<>>
          /\ ReaderContext_dummy.obj_number = <<>>
          /\ resolver.root_ctx.parent_chain = <<>>
          /\ resolver.root_ctx.obj_number = <<>>
          /\ \A i \in 1..Len(resolver.frames) : NoDuplicates(resolver.frames[i].c))
    /\ [][/\ resolver'.root_ctx = resolver.root_ctx
          /\ \A i \in 1..Len(resolver.frames) :
                 i <= Len(resolver'.frames) => resolver'.frames[i].c = resolver.frames[i].c]_vars

\* A second reference of an object is resolved after the first one returned.
C7_Witness ==
    /\ Len(resolver.frames) = 2
    /\ resolver.frames[1].next = 2
    /\ resolver.frames[1].c.parent_chain = <<1>>
    /\ resolver.frames[2].c.parent_chain = <<1, 3>>

(***************************************************************************)
(* Several readers over one buffer.  A Reader is a borrowed slice and an   *)
(* offset of its own; clone copies both.  The owners of the readers call   *)
(* them in any order.                                                      *)
(***************************************************************************)
Cursors == {1, 2}

CursorOps == {"read_byte", "forward", "peek_tag"}

CursorTag == <<CR, LF>>

CursorCall(name, o) ==
    CASE name = "read_byte" -> read_byte(o)
      [] name = "forward" -> forward(o)
      [] name = "peek_tag" -> peek_tag(o, CursorTag)

\* Reader::new(data), with the calls made on it so far and what they returned.
NewReader == [offset |-> 0, calls |-> <<>>, results |-> <<>>]

\* The reader after its call `name` returned r.
AfterCall(reader, name, r) ==
    [offset |-> r.off,
     calls |-> Append(reader.calls, name),
     results |-> Append(reader.results, [some |-> r.some, val |-> r.val])]

CursorWriteShared(readers, i, reader) ==
    [j \in Cursors |->
        IF j = i THEN reader ELSE [readers[j] EXCEPT !.offset = reader.offset]]

\* A call through &mut self writes the fields of that reader and of no other.
CursorWrite(readers, i, reader) == [readers EXCEPT ![i] = reader]

CursorsInit ==
    /\ data \in GrammarBuffers
    /\ offset = 0
    /\ overflow_checks \in BOOLEAN
    /\ panicked = FALSE
    /\ last = NoOp
    /\ stack = <<>>
    /\ resolver = NoResolution
    /\ cursors = [readers |-> [i \in Cursors |-> NewReader], acting |-> 0]
    /\ dct = NoDecode

\* The owner of reader i calls it.
ReaderCall ==
    /\ ~panicked
    /\ \E i \in Cursors, name \in CursorOps :
        /\ Len(cursors.readers[i].calls) < MaxCalls
        /\ LET reader == cursors.readers[i]
               r == CursorCall(name, reader.offset)
           IN  /\ panicked' = r.panic
               /\ cursors' = IF r.panic THEN cursors
                             ELSE [readers |-> CursorWrite(cursors.readers, i,
                                                           AfterCall(reader, name, r)),
                                   acting |-> i]
    /\ UNCHANGED <<data, offset, overflow_checks, last, stack, resolver, dct>>

\* Reader j is replaced by a clone of reader i.
ReaderClone ==
    /\ ~panicked
    /\ \E i \in Cursors : \E j \in Cursors \ {i} :
        cursors' = [readers |-> CursorWrite(cursors.readers, j, cursors.readers[i]),
                    acting |-> j]
    /\ UNCHANGED <<data, offset, overflow_checks, panicked, last, stack, resolver, dct>>

CursorsNext == ReaderCall \/ ReaderClone

SpecCursors == CursorsInit /\ [][CursorsNext]_vars

\* The reader that made the first n of the calls with no other reader about.
RECURSIVE RunAlone(_, _)
RunAlone(calls, n) ==
    IF n = 0 THEN NewReader
    ELSE Then(RunAlone(calls, n - 1), LAMBDA before :
             AfterCall(before, calls[n], CursorCall(calls[n], before.offset)))

\* C15: with several readers (clones included) over one buffer, called in any
\* interleaving, the buffer is never modified, a call on one reader never
\* changes the offset of another, and the results and the offset of each
\* reader are those it has when it makes its calls alone.
C15_CursorsAreIndependent ==
    /\ [][/\ data' = data
          /\ \A j \in Cursors :
                 j # cursors'.acting => cursors'.readers[j] = cursors.readers[j]]_vars
    /\ [](\A i \in Cursors :
             LET reader == cursors.readers[i]
             IN  reader = RunAlone(reader.calls, Len(reader.calls)))

C15_Witness ==
    /\ data = CrLfBytes /\ cursors.acting = 2
    /\ cursors.readers[1].calls = <<"read_byte", "read_byte">>
    /\ cursors.readers[1].offset = 2
    /\ cursors.readers[2].calls = <<"peek_tag">>
    /\ cursors.readers[2].results = <<[some |-> TRUE, val |-> <<>>]>>
    /\ cursors.readers[2].offset = 0

(***************************************************************************)
(* Properties of the cursor operations, checked under Spec.                *)
(***************************************************************************)
ByteAt(i) == data[i + 1]

\* The operations that look at the buffer before they move the cursor.
CheckedOps ==
    {"new", "jump_to_end", "tail", "read_bytes", "read_byte", "skip_bytes", "peek_bytes",
     "peek_byte", "eat", "forward_if", "forward_while_1", "forward_tag", "forward_while",
     "peek_tag", "skip_white_spaces", "read_white_space", "skip_eol_characters",
     "skip_white_spaces_and_comments", "read_with_context", "read_without_context",
     "from_bytes_impl", "skip", "skip_not_in_content_stream", "skip_in_content_stream"}

\* C3, as stated: after any sequence of cursor operations the offset is at most
\* the length of the buffer.
C3_OffsetWithinBuffer == 0 <= offset /\ offset <= Len(data)

\* C3, amended: the offset is never negative; new leaves it at 0 and jump_to_end
\* at the length; every operation other than forward, jump and new_with that
\* starts with the offset within the buffer leaves it within the buffer.
C3_CheckedOpsStayWithinBuffer ==
    /\ 0 <= offset
    /\ last.op = "new" => offset = 0
    /\ last.op = "jump_to_end" => offset = Len(data)
    /\ (last.op \in CheckedOps /\ last.old <= Len(data)) => offset <= Len(data)

C3_Witness ==
    /\ last.op = "forward_tag" /\ last.tag = <<CR, LF>> /\ ~last.some
    /\ last.old = Len(data) - 1 /\ offset = last.old

\* C4: skip_in_content_stream hands is_content_stream = true to the grammar and
\* skip_not_in_content_stream hands it false, so on `12 0 R` the first returns
\* the span `12` and the second the span `12 0 R`.
C4_SkipEntryPointsKeepTheMode ==
    /\ last.op = "skip_in_content_stream" => last.flag = TRUE
    /\ last.op = "skip_not_in_content_stream" => last.flag = FALSE
    /\ (data = RefBytes /\ last.old = 0 /\ last.op = "skip_in_content_stream")
           => last.val = <<49, 50>>
    /\ (data = RefBytes /\ last.old = 0 /\ last.op = "skip_not_in_content_stream")
           => last.val = RefBytes

\* C5: on `12 0 R` a value read outside a content stream is the reference 12 0
\* and leaves the cursor after `R`; read in a content stream it is the number
\* 12 with the cursor right after `12`, and `0` and `R` are then tokens of their own.
C5_ContentStreamModeDifference ==
    (data = RefBytes /\ last.old = 0) =>
        /\ (last.op = "read_with_context" /\ ~last.flag)
               => last.some /\ last.kind = "ref" /\ last.val = <<12, 0>> /\ offset = 6
        /\ (last.op = "read_without_context" \/ (last.op = "read_with_context" /\ last.flag))
               => /\ last.some /\ last.kind = "num" /\ last.val = <<12>> /\ offset = 2
                  /\ LET zero == Object_read(skip_white_spaces(offset).off,
                                             read_without_context_ctx)
                     IN  /\ zero.some /\ zero.kind = "num" /\ zero.val = <<0>>
                         /\ forward_tag(skip_white_spaces(zero.off).off, <<82>>).some

C5_Witness ==
    /\ data = RefBytes /\ last.old = 0 /\ last.op = "read_without_context"
    /\ last.kind = "num" /\ offset = 2

\* C8: read_byte, read_bytes(n) and skip_bytes(n) return a value exactly when
\* the bytes are there, and then the offset has grown by 1 resp. n and the value
\* is those bytes; otherwise the offset is unchanged.
C8_ReadAdvancesOnlyOnSuccess ==
    /\ last.op = "read_byte" =>
           IF last.some
           THEN /\ last.old < Len(data)
                /\ offset = last.old + 1
                /\ last.val = <<ByteAt(last.old)>>
           ELSE last.old >= Len(data) /\ offset = last.old
    /\ last.op \in {"read_bytes", "skip_bytes"} =>
           IF last.some
           THEN /\ last.old + last.n <= Len(data)
                /\ offset = last.old + last.n
                /\ last.op = "read_bytes"
                       => last.val = SubSeq(data, last.old + 1, last.old + last.n)
           ELSE offset = last.old /\ (~panicked => last.old + last.n > Len(data))

C8_Witness ==
    /\ last.op = "read_bytes" /\ last.n = 2 /\ last.some /\ last.old = 1
    /\ offset = 3 /\ last.val = <<LF, 49>>

\* C9: peek_byte and peek_bytes(n) never move the cursor and never abort; they
\* return data[offset .. offset+n] when that lies in the buffer and no value
\* otherwise, also when offset + n exceeds the machine word.
C9_PeekNeverAborts ==
    last.op \in {"peek_byte", "peek_bytes"} =>
        /\ ~panicked
        /\ offset = last.old
        /\ LET n == IF last.op = "peek_byte" THEN 1 ELSE last.n
           IN  IF last.old + n <= Len(data)
               THEN last.some /\ last.val = SubSeq(data, last.old + 1, last.old + n)
               ELSE ~last.some

\* C10: read_white_space at `\r\n` succeeds and advances 2 bytes; at a lone `\n`,
\* or at a `\r` not followed by `\n`, it succeeds and advances 1 byte; at a byte
\* that is no white space, or at the end of the buffer, it fails and the offset
\* stays.  So a call that starts at the `\r` of a pair never leaves the `\n` behind.
C10_NewlineNormalization ==
    last.op = "read_white_space" =>
        LET o == last.old
            pair == o + 1 < Len(data) /\ ByteAt(o) = CR /\ ByteAt(o + 1) = LF
        IN  /\ pair => last.some /\ offset = o + 2
            /\ (o < Len(data) /\ ByteAt(o) = LF) => last.some /\ offset = o + 1
            /\ (o < Len(data) /\ ByteAt(o) = CR /\ ~pair) => last.some /\ offset = o + 1
            /\ (o >= Len(data)
                  \/ (o < Len(data) /\ ~is_white_space_character(ByteAt(o))
                                    /\ ~is_ascii_whitespace(ByteAt(o))))
                   => ~last.some /\ offset = o

C10_Witness ==
    /\ data = CrLfBytes /\ last.op = "read_white_space" /\ last.old = 0
    /\ last.some /\ offset = 2

\* Byte i lies in a comment that began at or after byte o: a `%` at or after o
\* precedes it on its line.
InComment(o, i) ==
    \E c \in o..i :
        /\ ByteAt(c) = PERCENT
        /\ \A k \in (c + 1)..i : ~is_eol_character(ByteAt(k))

\* Byte i is trivia when the skipping began at o: white space or part of a comment.
IsTrivia(o, i) == is_white_space_character(ByteAt(i)) \/ InComment(o, i)

\* C16: skip_white_spaces_and_comments ends on every input and never fails;
\* from an offset in the buffer it ends at the end of the buffer or at the first
\* byte that is neither white space nor `%`, and every byte it passed belongs
\* to a run of white space or to a comment (a `%` up to the end of its line,
\* or up to the end of the buffer), so a `%` met by the loop is always passed.
C16_TriviaSkipEndsAtAToken ==
    last.op = "skip_white_spaces_and_comments" =>
        /\ last.some /\ ~panicked
        /\ last.old <= offset
        /\ last.old > Len(data) => offset = last.old
        /\ last.old <= Len(data) =>
               /\ offset <= Len(data)
               /\ \A i \in last.old..(offset - 1) : IsTrivia(last.old, i)
               /\ offset < Len(data) =>
                      /\ ~is_white_space_character(ByteAt(offset))
                      /\ ByteAt(offset) # PERCENT
                      /\ ~IsTrivia(last.old, offset)

C16_Witness ==
    /\ last.op = "skip_white_spaces_and_comments" /\ data = CommentBytes
    /\ last.old = 0 /\ offset = 3

\* The tag lies in the buffer at offset o.
TagAt(o, tag) ==
    /\ o + Len(tag) <= Len(data)
    /\ SubSeq(data, o + 1, o + Len(tag)) = tag

\* C17: peek_tag never moves the cursor and succeeds exactly when the bytes at
\* the offset are those of the tag (the empty tag always matches); forward_tag
\* succeeds in the same cases and then advances by the length of the tag, and
\* otherwise fails with the offset unchanged, also when the buffer ends in the
\* middle of the tag or only a proper prefix of it matches.
C17_TagMatching ==
    last.op \in {"peek_tag", "forward_tag"} =>
        /\ ~panicked
        /\ last.some <=> (last.tag = <<>> \/ TagAt(last.old, last.tag))
        /\ last.op = "peek_tag" => offset = last.old
        /\ (last.op = "forward_tag" /\ last.some) => offset = last.old + Len(last.tag)
        /\ (last.op = "forward_tag" /\ ~last.some) => offset = last.old

C17_Witness ==
    /\ last.op = "forward_tag" /\ last.tag = <<49, 50>> /\ data = <<49, 49>>
    /\ last.old = 0 /\ ~last.some /\ offset = 0

\* Where forward_while(p) stops from o: the first byte at or after o that does
\* not satisfy p, or the end of the buffer.
FirstStop(o, f) ==
    CHOOSE j \in o..Len(data) :
        /\ j = Len(data) \/ ~Pred(f, ByteAt(j))
        /\ \A k \in o..(j - 1) : Pred(f, ByteAt(k))

\* C18: forward_while never fails and from an offset o in the buffer ends at
\* the smallest j >= o that is the end of the buffer or holds a byte not
\* satisfying p; eat and forward_if consume exactly one byte when there is one
\* and it satisfies p, and otherwise fail without consuming; forward_while_1
\* fails without consuming when the first byte is missing or does not satisfy
\* p, and otherwise ends where forward_while does, at least one byte further.
C18_PredicateScans ==
    LET o == last.old
        first == o < Len(data) /\ Pred(last.f, ByteAt(o))
    IN  /\ last.op = "forward_while" =>
               /\ last.some /\ ~panicked
               /\ o <= Len(data) => offset = FirstStop(o, last.f)
               /\ o > Len(data) => offset = o
        /\ last.op \in {"eat", "forward_if"} =>
               /\ ~panicked
               /\ last.some <=> first
               /\ offset = IF first THEN o + 1 ELSE o
               /\ (last.op = "eat" /\ first) => last.val = <<ByteAt(o)>>
        /\ last.op = "forward_while_1" =>
               /\ ~panicked
               /\ last.some <=> first
               /\ first => offset = FirstStop(o, last.f) /\ offset >= o + 1
               /\ ~first => offset = o

C18_Witness ==
    /\ last.op = "forward_while" /\ last.f = "is_digit" /\ data = RefBytes
    /\ last.old = 0 /\ offset = 2

(***************************************************************************)
(* The DCT filter (src/hayro-syntax/src/filter/dct.rs): decode hands the   *)
(* bytes of a JPEG to a JPEG decoder, picks the colorspace to decode       *)
(* into, tries once more with another colorspace when the decode fails,    *)
(* and converts YCCK samples.  The JPEG decoder is a library: what it      *)
(* makes of the bytes is an input of the model.                            *)
(***************************************************************************)
\* What get_input_colorspace may report; BGR stands for every colorspace the
\* match does not name.
InputColorSpaces == {"YCbCr", "RGB", "RGBA", "Luma", "LumaA", "CMYK", "YCCK", "BGR"}

\* The colorspaces decode asks the decoder for.
OutColorSpaces == {"RGB", "YCbCr", "Luma", "CMYK", "YCCK"}

\* Samples per pixel of the decoder's output.
Components(colorspace) ==
    CASE colorspace = "Luma" -> 1
      [] colorspace \in {"RGB", "YCbCr"} -> 3
      [] colorspace \in {"CMYK", "YCCK"} -> 4

\* Four-component pixels: one whose conversion exceeds 255 in two channels, one
\* whose conversion is negative in a channel, one of both kinds, and gray.
PixelSamples ==
    {<<0, 0, 0, 255>>, <<200, 100, 50, 0>>, <<100, 50, 200, 7>>, <<128, 128, 128, 128>>}

\* The bytes of a JPEG, by what the decoder makes of them: whether the headers
\* parse, the colorspace they declare, the output colorspaces the image data
\* decodes into, and the pixels.
Jpegs ==
    [headers_ok : BOOLEAN,
     input_colorspace : InputColorSpaces,
     decodable : SUBSET OutColorSpaces,
     pixels : SeqsUpTo(PixelSamples, MaxPixels)]

\* The ColorTransform entry of the stream's parameters: absent, of a type that
\* is no integer, or an integer.
ColorTransforms ==
    {[kind |-> "absent", value |-> 0], [kind |-> "name", value |-> 0]}
        \cup {[kind |-> "integer", value |-> v] : v \in 0..2}

\* Option<T> of the filter: no value, or the value.
NoValue == [some |-> FALSE, val |-> <<>>]
Value(v) == [some |-> TRUE, val |-> v]

\* params.get::<u8>(COLOR_TRANSFORM)
Dict_get_u8(entry) == IF entry.kind = "integer" THEN Value(entry.value) ELSE NoValue

out_colorspace_flag_required(input_colorspace, color_transform) ==
    CASE input_colorspace = "YCbCr" ->
             IF color_transform.some /\ color_transform.val = 1 THEN "RGB" ELSE "YCbCr"
      [] input_colorspace \in {"RGB", "RGBA"} -> "RGB"
      [] input_colorspace \in {"Luma", "LumaA"} -> "Luma"
      [] input_colorspace = "CMYK" -> "CMYK"
      [] input_colorspace = "YCCK" -> "YCCK"
      [] OTHER -> "RGB"

\* The match on the input colorspace.
out_colorspace_for(input_colorspace, color_transform) ==
    CASE input_colorspace = "YCbCr" ->
             IF ~color_transform.some \/ color_transform.val = 1 THEN "RGB" ELSE "YCbCr"
      [] input_colorspace \in {"RGB", "RGBA"} -> "RGB"
      [] input_colorspace \in {"Luma", "LumaA"} -> "Luma"
      [] input_colorspace = "CMYK" -> "CMYK"
      [] input_colorspace = "YCCK" -> "YCCK"
      [] OTHER -> "RGB"

retry_colorspace_rgb(out_colorspace) == "RGB"

\* The colorspace of the second attempt.
retry_colorspace(out_colorspace) ==
    IF out_colorspace \in {"YCCK", "CMYK"} THEN "RGB" ELSE "CMYK"

\* The decoder's output: the samples of each pixel in the colorspace asked for.
RECURSIVE Samples(_, _)
Samples(pixels, colorspace) ==
    IF pixels = <<>> THEN <<>>
    ELSE SubSeq(Head(pixels), 1, Components(colorspace))
             \o Samples(Tail(pixels), colorspace)

Decoder_decode_or_empty(jpeg, out_colorspace) ==
    IF out_colorspace \in jpeg.decodable
    THEN Value(Samples(jpeg.pixels, out_colorspace))
    ELSE Value(<<>>)

\* decoder.decode().ok() with the output colorspace set.
Decoder_decode(jpeg, out_colorspace) ==
    IF out_colorspace \in jpeg.decodable
    THEN Value(Samples(jpeg.pixels, out_colorspace))
    ELSE NoValue

as_u8_wrapping(thousandths) ==
    (IF thousandths < 0 THEN 0 - ((0 - thousandths) \div 1000)
     ELSE thousandths \div 1000) % 256

\* `x as u8` of an f32 x, given in thousandths: the fraction is dropped and the
\* value saturates at 0 and 255.
as_u8(thousandths) ==
    IF thousandths < 0 THEN 0
    ELSE IF thousandths \div 1000 > 255 THEN 255
         ELSE thousandths \div 1000

\* The body of the loop over the chunks of four samples.
convert_chunk(c) ==
    LET y == c[1]
        cb == c[2]
        cr == c[3]
    IN  <<as_u8(434456 - 1000 * y - 1402 * cr),
          as_u8(119541 - 1000 * y + 344 * cb + 714 * cr),
          as_u8(481816 - 1000 * y - 1772 * cb)>> \o SubSeq(c, 4, Len(c))

\* for c in decoded.chunks_mut(4)
RECURSIVE ycck_to_cmyk(_)
ycck_to_cmyk(decoded) ==
    IF decoded = <<>> THEN <<>>
    ELSE LET n == IF Len(decoded) < 4 THEN Len(decoded) ELSE 4
         IN  convert_chunk(SubSeq(decoded, 1, n))
                 \o ycck_to_cmyk(SubSeq(decoded, n + 1, Len(decoded)))

post_process_cmyk_too(out_colorspace, decoded) ==
    IF out_colorspace \in {"YCCK", "CMYK"} THEN ycck_to_cmyk(decoded) ELSE decoded

\* The conversion after the decode.
post_process(out_colorspace, decoded) ==
    IF out_colorspace = "YCCK" THEN ycck_to_cmyk(decoded) ELSE decoded

\* A decode attempt: the decoder that made it, the colorspace it was set to,
\* and what it returned.
Attempt(decoder, out_colorspace, output) ==
    [decoder |-> decoder, colorspace |-> out_colorspace, output |-> output]

\* decode is called with the bytes of a JPEG and the parameters of the stream.
DctInit ==
    /\ data = <<>>
    /\ offset = 0
    /\ overflow_checks = FALSE
    /\ panicked = FALSE
    /\ last = NoOp
    /\ stack = <<>>
    /\ resolver = NoResolution
    /\ cursors = NoCursors
    /\ \E jpeg \in Jpegs, entry \in ColorTransforms :
           dct = [pc |-> "headers", jpeg |-> jpeg, color_transform_entry |-> entry,
                  decoders |-> <<>>, out_colorspace |-> "", attempts |-> <<>>,
                  decoded |-> NoValue, result |-> NoValue]

DctStep(next) ==
    /\ dct' = next
    /\ UNCHANGED <<data, offset, overflow_checks, panicked, last, stack, resolver, cursors>>

\* JpegDecoder::new(data); decoder.decode_headers().ok()?
DecodeHeaders ==
    /\ dct.pc = "headers"
    /\ DctStep([dct EXCEPT !.decoders = <<[headers |-> dct.jpeg.headers_ok]>>,
                           !.pc = IF dct.jpeg.headers_ok THEN "infer" ELSE "done"])

\* The colorspace of the first attempt.
InferColorspace ==
    /\ dct.pc = "infer"
    /\ DctStep([dct EXCEPT
           !.out_colorspace = out_colorspace_for(dct.jpeg.input_colorspace,
                                                 Dict_get_u8(dct.color_transform_entry)),
           !.pc = "decode"])

\* decoder.set_options(..); decoder.decode().ok()
FirstDecode ==
    /\ dct.pc = "decode"
    /\ LET output == Decoder_decode(dct.jpeg, dct.out_colorspace)
       IN  DctStep([dct EXCEPT
               !.attempts = <<Attempt(1, dct.out_colorspace, output)>>,
               !.decoded = output,
               !.pc = IF output.some THEN "post" ELSE "retry"])

\* The or_else closure: a new decoder parses the headers of the same bytes
\* again, is set to the other colorspace and decodes; no value ends decode.
RetryDecode ==
    /\ dct.pc = "retry"
    /\ IF ~dct.jpeg.headers_ok
       THEN DctStep([dct EXCEPT !.decoders = Append(@, [headers |-> FALSE]),
                                !.pc = "done"])
       ELSE LET target == retry_colorspace(dct.out_colorspace)
                output == Decoder_decode(dct.jpeg, target)
            IN  DctStep([dct EXCEPT
                    !.decoders = Append(@, [headers |-> TRUE]),
                    !.out_colorspace = target,
                    !.attempts = Append(@, Attempt(2, target, output)),
                    !.decoded = output,
                    !.pc = IF output.some THEN "post" ELSE "done"])

\* The YCCK conversion, and Some(decoded).
PostProcess ==
    /\ dct.pc = "post"
    /\ DctStep([dct EXCEPT
           !.decoded = Value(post_process(dct.out_colorspace, dct.decoded.val)),
           !.result = Value(post_process(dct.out_colorspace, dct.decoded.val)),
           !.pc = "done"])

DctNext == DecodeHeaders \/ InferColorspace \/ FirstDecode \/ RetryDecode \/ PostProcess

SpecDct == DctInit /\ [][DctNext]_vars

(***************************************************************************)
(* Properties of the DCT filter, checked under SpecDct.                    *)
(***************************************************************************)
\* decode has returned.
Returned == dct.pc = "done"

\* C11: once the headers are parsed the first attempt decodes into RGB for a
\* YCbCr image whose ColorTransform is absent, of another type or 1, into
\* YCbCr for a YCbCr image whose ColorTransform is present and not 1, into RGB
\* for RGB and RGBA, Luma for Luma and LumaA, CMYK for CMYK, YCCK for YCCK and
\* RGB for any other input colorspace; the flag matters for YCbCr only.
C11_FirstAttemptColorspace ==
    dct.attempts # <<>> =>
        LET input == dct.jpeg.input_colorspace
            flag == dct.color_transform_entry
            first == dct.attempts[1].colorspace
        IN  /\ dct.jpeg.headers_ok
            /\ (input = "YCbCr" /\ (flag.kind # "integer" \/ flag.value = 1))
                   => first = "RGB"
            /\ (input = "YCbCr" /\ flag.kind = "integer" /\ flag.value # 1)
                   => first = "YCbCr"
            /\ input \in {"RGB", "RGBA"} => first = "RGB"
            /\ input \in {"Luma", "LumaA"} => first = "Luma"
            /\ input = "CMYK" => first = "CMYK"
            /\ input = "YCCK" => first = "YCCK"
            /\ input \notin {"YCbCr", "RGB", "RGBA", "Luma", "LumaA", "CMYK", "YCCK"}
                   => first = "RGB"

C11_Witness ==
    /\ dct.jpeg.input_colorspace = "YCbCr"
    /\ dct.color_transform_entry = [kind |-> "absent", value |-> 0]
    /\ dct.attempts # <<>> /\ dct.attempts[1].colorspace = "RGB"

\* C12: at most two decode attempts are made; the second is made exactly when
\* the first failed, by a second decoder that parsed the headers again, into
\* RGB when the first attempt was into YCCK or CMYK and into CMYK otherwise;
\* when the first attempt succeeds its output is the one used.
C12_RetryProtocol ==
    /\ Len(dct.attempts) <= 2
    /\ dct.attempts # <<>> =>
           /\ dct.attempts[1].decoder = 1
           /\ dct.attempts[1].output.some =>
                  /\ Len(dct.attempts) = 1
                  /\ dct.pc \in {"post", "done"}
                  /\ dct.pc = "post" => dct.decoded = dct.attempts[1].output
           /\ (Returned /\ ~dct.attempts[1].output.some) => Len(dct.attempts) = 2
    /\ Len(dct.attempts) = 2 =>
           /\ ~dct.attempts[1].output.some
           /\ dct.attempts[2].decoder = 2
           /\ Len(dct.decoders) = 2 /\ dct.decoders[2].headers
           /\ dct.attempts[2].colorspace =
                  IF dct.attempts[1].colorspace \in {"YCCK", "CMYK"} THEN "RGB" ELSE "CMYK"

C12_Witness ==
    /\ Returned /\ Len(dct.attempts) = 2
    /\ dct.attempts[1].colorspace = "RGB" /\ ~dct.attempts[1].output.some
    /\ dct.attempts[2].colorspace = "CMYK" /\ dct.attempts[2].output.some
    /\ dct.result.some

\* C13: decode returns no value exactly when the headers do not parse (and
\* then nothing is decoded) or the first attempt and the retry both fail;
\* otherwise it returns the bytes decoded, never an empty buffer for a failure.
C13_FailureSemantics ==
    /\ ~dct.jpeg.headers_ok => dct.attempts = <<>>
    /\ Returned =>
           LET first == out_colorspace_for(dct.jpeg.input_colorspace,
                                           Dict_get_u8(dct.color_transform_entry))
               second == IF first \in {"YCCK", "CMYK"} THEN "RGB" ELSE "CMYK"
               fails == \/ ~dct.jpeg.headers_ok
                        \/ /\ first \notin dct.jpeg.decodable
                           /\ second \notin dct.jpeg.decodable
           IN  /\ dct.result.some <=> ~fails
               /\ fails => dct.result = NoValue
               /\ ~fails => Len(dct.result.val) =
                                Len(dct.jpeg.pixels) * Components(dct.out_colorspace)

C13_Witness ==
    /\ Returned /\ ~dct.result.some /\ dct.jpeg.headers_ok /\ Len(dct.attempts) = 2
    /\ dct.jpeg.pixels # <<>>

\* The value of a channel: the formula's value without its fraction, and 0
\* below 0 and 255 above 255.
Saturated(v, thousandths) ==
    /\ v \in 0..255
    /\ thousandths < 0 => v = 0
    /\ thousandths >= 256000 => v = 255
    /\ (0 <= thousandths /\ thousandths < 256000)
           => 1000 * v <= thousandths /\ thousandths < 1000 * (v + 1)

\* The value of a channel as C14 states it: the integer part modulo 256.
Wrapped(v, thousandths) ==
    \E q \in -1024..1024 :
        /\ v = q % 256
        /\ IF thousandths >= 0
           THEN 1000 * q <= thousandths /\ thousandths < 1000 * (q + 1)
           ELSE 1000 * (q - 1) < thousandths /\ thousandths <= 1000 * q

\* The YCCK samples the decoder returned and the samples decode returned.
YcckConverted(Channel(_, _)) ==
    LET before == dct.attempts[1].output.val
        after == dct.result.val
    IN  /\ Len(after) = Len(before)
        /\ \A p \in 0..(Len(dct.jpeg.pixels) - 1) :
               LET y == before[4 * p + 1]
                   cb == before[4 * p + 2]
                   cr == before[4 * p + 3]
               IN  /\ Channel(after[4 * p + 1], 434456 - 1000 * y - 1402 * cr)
                   /\ Channel(after[4 * p + 2],
                              119541 - 1000 * y + 344 * cb + 714 * cr)
                   /\ Channel(after[4 * p + 3], 481816 - 1000 * y - 1772 * cb)
                   /\ after[4 * p + 4] = before[4 * p + 4]

YcckReturned ==
    /\ Returned /\ dct.result.some
    /\ Len(dct.attempts) = 1 /\ dct.attempts[1].colorspace = "YCCK"

\* C14, as stated: the YCCK pixel 0, 0, 0, 255 becomes 178, 119, 225, 255; each
\* of the first three channels is the integer part of its formula modulo 256
\* and the fourth byte is unchanged.
C14_ConversionWrapsModulo256 ==
    YcckReturned =>
        /\ YcckConverted(Wrapped)
        /\ dct.jpeg.pixels = <<<<0, 0, 0, 255>>>> => dct.result.val = <<178, 119, 225, 255>>

\* C14, amended: the YCCK pixel 0, 0, 0, 255 becomes 255, 119, 255, 255; each of
\* the first three channels is its formula's value without the fraction,
\* saturated to 0..255, and the fourth byte is unchanged.
C14_ConversionSaturates ==
    YcckReturned =>
        /\ YcckConverted(Saturated)
        /\ dct.jpeg.pixels = <<<<0, 0, 0, 255>>>> => dct.result.val = <<255, 119, 255, 255>>

C14_Witness ==
    /\ YcckReturned
    /\ dct.jpeg.pixels = <<<<0, 0, 0, 255>>>>
    /\ dct.result.val = <<255, 119, 255, 255>>

\* C20: the YCCK conversion is applied exactly when the first attempt was into
\* YCCK and succeeded; after a retry the colorspace is RGB or CMYK and the
\* bytes returned are the output of the second decoder; whenever the
\* colorspace is not YCCK the bytes returned are the decoder's, unchanged.
C20_ConversionOnlyAfterFirstYcck ==
    (Returned /\ dct.result.some) =>
        LET used == dct.attempts[Len(dct.attempts)]
            first_ycck == /\ dct.attempts[1].colorspace = "YCCK"
                          /\ dct.attempts[1].output.some
        IN  /\ used.output.some
            /\ used.colorspace = dct.out_colorspace
            /\ first_ycck <=> dct.out_colorspace = "YCCK"
            /\ first_ycck => /\ Len(dct.attempts) = 1
                             /\ dct.result.val = ycck_to_cmyk(used.output.val)
            /\ Len(dct.attempts) = 2 =>
                   /\ dct.out_colorspace \in {"RGB", "CMYK"}
                   /\ used.decoder = 2
                   /\ dct.result.val = used.output.val
            /\ dct.out_colorspace # "YCCK" =>
                   /\ dct.result.val = used.output.val
                   /\ Len(dct.result.val) = Len(used.output.val)

C20_Witness ==
    /\ Returned /\ dct.result.some /\ Len(dct.attempts) = 2
    /\ dct.attempts[1].colorspace = "YCCK" /\ dct.out_colorspace = "RGB"
    /\ dct.jpeg.pixels = <<<<0, 0, 0, 255>>>> /\ dct.result.val = <<0, 0, 0>>

=============================================================================
